---- MODULE Spec2Model ----
(***************************************************************************)
(* One-way inventory push ERPNext -> Shopify                               *)
(* (ecommerce_integrations/shopify/inventory.py).                          *)
(*                                                                         *)
(* The state is the local database (committed rows and the open            *)
(* transaction), the audit log, the calls made to the remote platform and  *)
(* the position of the running job.  Python values are modelled as         *)
(* follows: a string attribute that is None, '' or missing is "", an       *)
(* integer id that is None or missing is 0 (all are falsy in the code),    *)
(* a quantity is a number of tenths (107 is 10.7).                         *)
(***************************************************************************)
EXTENDS Integers, Sequences, FiniteSets, TLC

\* ------------------------------------------------------------------ bounds
\* longest row list handed over by get_inventory_levels or by a direct caller
MaxRows == 2
\* entry point invocations in one behaviour
MaxRuns == 2
\* longest batch handed to the Batch Logger on its own (LoggerSpec)
MaxBatch == 4

\* ------------------------------------------------------- program constants
BatchSize == 50
MODULE_NAME == "shopify"

Unset == "<unset>"

\* ------------------------------------------------------- python primitives
Truthy(s) == s # ""

\* A value of the warehouse map: the text of a settings field, or an int.
StrVal(s) == [py |-> "str", s |-> s, n |-> 0]
IntVal(n) == [py |-> "int", s |-> "", n |-> n]

\* The texts int() parses, with their values; every other text raises ValueError.
NumericText == ("5" :> 5) @@ ("12" :> 12)

IntRaises(v) == v.py = "str" /\ v.s \notin DOMAIN NumericText

Int_(v) == IF v.py = "int" THEN v.n ELSE NumericText[v.s]

\* frappe.utils.cint on a float: int(float(x)), which truncates toward zero.
cint(q) == IF q >= 0 THEN q \div 10 ELSE -((-q) \div 10)

Min(a, b) == IF a < b THEN a ELSE b

Max(a, b) == IF a > b THEN a ELSE b

RECURSIVE SeqsUpTo(_, _)
\* all sequences over S of length at most n
SeqsUpTo(S, n) ==
    IF n = 0 THEN {<<>>}
    ELSE LET shorter == SeqsUpTo(S, n - 1)
         IN  shorter \cup {Append(s, x) : s \in {t \in shorter : Len(t) = n - 1}, x \in S}

\* ------------------------------------------------- the local database (ERP)
\* Ecommerce Item documents: name -> integration, erpnext_item_code, variant_id.
EDoc(integ, code, variant) ==
    [integration |-> integ, erpnext_item_code |-> code, variant_id |-> variant]

EcommerceItem ==
       ("E-OK"       :> EDoc("shopify", "ITEM-A", "V-OK"))
    @@ ("E-OK-U"     :> EDoc("shopify", "ITEM-A", "V-OK"))
    @@ ("E-NOVAR"    :> EDoc("shopify", "ITEM-A", ""))
    @@ ("E-NOVAR-U"  :> EDoc("shopify", "ITEM-A", ""))
    @@ ("E-NOINV"    :> EDoc("shopify", "ITEM-B", "V-NOINV"))
    @@ ("E-NOINV-U"  :> EDoc("shopify", "ITEM-B", "V-NOINV"))
    @@ ("E-NF"       :> EDoc("shopify", "ITEM-B", "V-NF"))
    @@ ("E-NF-U"     :> EDoc("shopify", "ITEM-B", "V-NF"))
    @@ ("E-FERR"     :> EDoc("shopify", "ITEM-A", "V-ERR"))
    @@ ("E-SNF"      :> EDoc("shopify", "ITEM-A", "V-SNF"))
    @@ ("E-SNF-U"    :> EDoc("shopify", "ITEM-A", "V-SNF"))
    @@ ("E-SERR"     :> EDoc("shopify", "ITEM-B", "V-SERR"))
    @@ ("E-OTHER"    :> EDoc("unicommerce", "ITEM-A", "V-OK"))
    @@ ("E-NOCODE"   :> EDoc("shopify", "", "V-OK"))
    @@ ("E-UNFLAG"   :> EDoc("shopify", "ITEM-C", "V-OK"))
    @@ ("E-DISABLED" :> EDoc("shopify", "ITEM-D", "V-OK"))
    @@ ("E-GONE"     :> EDoc("shopify", "ITEM-X", "V-OK"))

EcomItems == DOMAIN EcommerceItem

\* Item documents: name -> custom_sync_to_shopify, disabled.  ITEM-X does not exist.
Item ==
       ("ITEM-A" :> [custom_sync_to_shopify |-> 1, disabled |-> 0])
    @@ ("ITEM-B" :> [custom_sync_to_shopify |-> 1, disabled |-> 0])
    @@ ("ITEM-C" :> [custom_sync_to_shopify |-> 0, disabled |-> 0])
    @@ ("ITEM-D" :> [custom_sync_to_shopify |-> 1, disabled |-> 1])

\* The ecom items whose update_inventory_sync_status call raises.
SyncStatusRaises(ecom_item) ==
    ecom_item \in {"E-OK-U", "E-NOVAR-U", "E-NOINV-U", "E-NF-U", "E-SNF-U"}

\* ------------------------------------------------------ the remote platform
\* Variant.find(id): the variant, ResourceNotFound, or another exception.
VariantFind(variant_id) ==
    CASE variant_id = "V-OK"    -> [kind |-> "ok", inventory_item_id |-> 11]
      [] variant_id = "V-NOINV" -> [kind |-> "ok", inventory_item_id |-> 0]
      [] variant_id = "V-SNF"   -> [kind |-> "ok", inventory_item_id |-> 12]
      [] variant_id = "V-SERR"  -> [kind |-> "ok", inventory_item_id |-> 13]
      [] variant_id = "V-NF"    -> [kind |-> "not_found", inventory_item_id |-> 0]
      [] OTHER                  -> [kind |-> "error", inventory_item_id |-> 0]

\* InventoryLevel.set(...): returns, raises ResourceNotFound, or raises another exception.
InventoryLevelSet(location_id, inventory_item_id, available) ==
    CASE inventory_item_id = 11 -> "ok"
      [] inventory_item_id = 12 -> "not_found"
      [] OTHER                  -> "error"

\* ------------------------------------------------------------- inventory rows
\* (actual_qty, reserved_qty) pairs, in tenths
Qtys == {<<107, 30>>, <<102, 15>>}

Warehouses == {"W1", "W2", "W3"}

\* A row as get_inventory_levels returns it; the three last fields are the
\* attributes the Batch Pusher sets on it (missing until then).
InvRow(e, w, q) ==
    [ecom_item |-> e, warehouse |-> w,
     variant_id |-> IF e \in EcomItems THEN EcommerceItem[e].variant_id ELSE "",
     actual_qty |-> q[1], reserved_qty |-> q[2],
     shopify_location_id |-> 0, status |-> Unset, failure_reason |-> <<>>]

\* Rows that differ only in a field the code never reads on their path are
\* represented once: the quantities matter only to a row that reaches
\* InventoryLevel.set, the variant only to a row whose location resolves.
ReachesSet(e) == e \in EcomItems /\ VariantFind(EcommerceItem[e].variant_id).inventory_item_id # 0

QtysOf(e) == IF ReachesSet(e) THEN Qtys ELSE {<<107, 30>>}

RowsOf(items, warehouse) ==
    UNION {{InvRow(e, warehouse, q) : q \in QtysOf(e)} : e \in items}

\* get_inventory_levels((warehouse,), MODULE_NAME): any rows of that warehouse.
get_inventory_levels(warehouse) == SeqsUpTo(RowsOf(EcomItems, warehouse), MaxRows)

\* ---------------------------------------------------------- Eligibility Filter
\* frappe.get_all("Ecommerce Item", name in ecom_names, integration = MODULE_NAME)
GetAllEcommerceItem(ecom_names) ==
    {n \in DOMAIN EcommerceItem :
        n \in ecom_names /\ EcommerceItem[n].integration = MODULE_NAME}

\* frappe.get_all("Item", name in codes, custom_sync_to_shopify = 1, disabled = 0)
GetAllItemIgnoringDisabled(codes) ==
    {c \in DOMAIN Item : c \in codes /\ Item[c].custom_sync_to_shopify = 1}

GetAllItem(codes) ==
    {c \in DOMAIN Item :
        c \in codes /\ Item[c].custom_sync_to_shopify = 1 /\ Item[c].disabled = 0}

FilterToFlaggedItems(inventory_levels) ==
    IF inventory_levels = <<>> THEN [rows |-> <<>>, queries |-> 0]
    ELSE
    LET ecom_names == {inventory_levels[k].ecom_item :
                          k \in {j \in 1..Len(inventory_levels) :
                                    Truthy(inventory_levels[j].ecom_item)}}
    IN  IF ecom_names = {} THEN [rows |-> <<>>, queries |-> 0]
        ELSE
        LET ecom_rows == GetAllEcommerceItem(ecom_names)
            ecom_to_item ==
                [n \in {m \in ecom_rows : Truthy(EcommerceItem[m].erpnext_item_code)}
                    |-> EcommerceItem[n].erpnext_item_code]
            allowed_items ==
                GetAllItem({ecom_to_item[n] : n \in DOMAIN ecom_to_item})
            erp_item(d) == IF d.ecom_item \in DOMAIN ecom_to_item
                           THEN ecom_to_item[d.ecom_item] ELSE ""
            keep(d) == erp_item(d) \in allowed_items
        IN  [rows |-> SelectSeq(inventory_levels, keep), queries |-> 2]

\* ----------------------------------------------------------------- Batch Logger
LogEntry(status, message, arg, succ, total, table) ==
    [status |-> status, message |-> message, arg |-> arg,
     succ |-> succ, total |-> total, table |-> table]

\* getattr(d, "status", "Failed")
StatusOrFailed(d) == IF d.status = Unset THEN "Failed" ELSE d.status

RECURSIVE CountSuccess(_)
\* Counter(statuses).get("Success", 0)
CountSuccess(statuses) ==
    IF statuses = <<>> THEN 0
    ELSE (IF Head(statuses) = "Success" THEN 1 ELSE 0) + CountSuccess(Tail(statuses))

\* pct = succ / total, kept as the fraction: pct == 1 is succ = total, pct > 0 is succ > 0
BatchStatusLenient(succ, total) ==
    IF succ > 0 THEN "Success" ELSE "Failed"

BatchStatus(succ, total) ==
    IF succ = total THEN "Success" ELSE IF succ > 0 THEN "Partial Success" ELSE "Failed"

LogBatchStatus(inventory_levels) ==
    LET table == [k \in 1..Len(inventory_levels) |->
                     [variant_id |-> inventory_levels[k].variant_id,
                      location_id |-> inventory_levels[k].shopify_location_id,
                      status |-> IF inventory_levels[k].status = Unset THEN ""
                                 ELSE inventory_levels[k].status,
                      failure_reason |-> inventory_levels[k].failure_reason]]
        statuses == [k \in 1..Len(inventory_levels) |-> StatusOrFailed(inventory_levels[k])]
        succ == CountSuccess(statuses)
        total == Max(Len(inventory_levels), 1)
    IN  LogEntry(BatchStatus(succ, total), "Updated % items", "", succ, total, table)

\* ------------------------------------------------------------------ Batch Pusher
\* One call to the remote platform, made while row k was processed.
Call(op, k, variant_id, location_id, inventory_item_id, available) ==
    [op |-> op, row |-> k, variant_id |-> variant_id, location_id |-> location_id,
     inventory_item_id |-> inventory_item_id, available |-> available]

\* What processing one row did: the row as mutated, the remote calls, the
\* update_inventory_sync_status calls, the open transaction, and whether an
\* exception left the row's processing.
Out(row, calls, stamps, pend, raised) ==
    [row |-> row, calls |-> calls, stamps |-> stamps, pend |-> pend, raised |-> raised]

\* update_inventory_sync_status(ecom_item, time): writes the item's sync
\* timestamp in the open transaction, or raises.
UpdateInventorySyncStatus(ecom_item, time, pend) ==
    IF SyncStatusRaises(ecom_item)
    THEN [raised |-> TRUE, pend |-> pend]
    ELSE [raised |-> FALSE, pend |-> [pend EXCEPT ![ecom_item] = time]]

\* One update_inventory_sync_status call, made while row k was processed.
Stamp(k, ecom_item, time, raised) ==
    [row |-> k, ecom_item |-> ecom_item, time |-> time, raised |-> raised]

CommitRowAndContinueUnguarded(d, k, synced_on, pend) ==
    LET u == UpdateInventorySyncStatus(d.ecom_item, synced_on, pend)
    IN  [pend |-> u.pend, stamps |-> <<Stamp(k, d.ecom_item, synced_on, u.raised)>>,
         raised |-> u.raised]

\* _commit_row_and_continue up to its frappe.db.commit(), which is the Commit
\* step; `except Exception: pass` keeps a failed update inside (raised is FALSE)
CommitRowAndContinue(d, k, synced_on, pend) ==
    IF Truthy(d.ecom_item)
    THEN LET u == UpdateInventorySyncStatus(d.ecom_item, synced_on, pend)
         IN  [pend |-> u.pend, stamps |-> <<Stamp(k, d.ecom_item, synced_on, u.raised)>>,
              raised |-> FALSE]
    ELSE [pend |-> pend, stamps |-> <<>>, raised |-> FALSE]

ResolveLocationDefaulting(d, warehouse_map) ==
    IF d.warehouse \notin DOMAIN warehouse_map
    THEN [raised |-> FALSE, id |-> 0]
    ELSE IF IntRaises(warehouse_map[d.warehouse])
    THEN [raised |-> FALSE, id |-> 0]
    ELSE [raised |-> FALSE, id |-> Int_(warehouse_map[d.warehouse])]

\* int(warehouse_map[d.warehouse]): KeyError or ValueError, or the location id
ResolveLocation(d, warehouse_map) ==
    IF d.warehouse \notin DOMAIN warehouse_map
    THEN [raised |-> TRUE, id |-> 0]
    ELSE IF IntRaises(warehouse_map[d.warehouse])
    THEN [raised |-> TRUE, id |-> 0]
    ELSE [raised |-> FALSE, id |-> Int_(warehouse_map[d.warehouse])]

AvailableTruncatedLate(d) == cint(d.actual_qty - d.reserved_qty)

\* cint(d.actual_qty) - cint(d.reserved_qty)
Available(d) == cint(d.actual_qty) - cint(d.reserved_qty)

Failed(d, reason) == [d EXCEPT !.status = "Failed", !.failure_reason = reason]

\* a mapping check failed: mark, _commit_row_and_continue, continue
RejectRow(d, k, reason, calls, synced_on, pend) ==
    LET c == CommitRowAndContinue(Failed(d, reason), k, synced_on, pend)
    IN  Out(Failed(d, reason), calls, c.stamps, c.pend, c.raised)

\* except ResourceNotFound: the timestamp update is not guarded, an exception
\* it raises leaves the handler with the row's status not yet assigned
OnResourceNotFound(d, k, calls, synced_on, pend) ==
    LET u == UpdateInventorySyncStatus(d.ecom_item, synced_on, pend)
        stamps == <<Stamp(k, d.ecom_item, synced_on, u.raised)>>
    IN  IF u.raised
        THEN Out(d, calls, stamps, pend, TRUE)
        ELSE Out([d EXCEPT !.status = "Not Found",
                           !.failure_reason = <<"Variant or Location not found",
                                                d.variant_id,
                                                ToString(d.shopify_location_id)>>],
                 calls, stamps, u.pend, FALSE)

OnExceptionGeneric(d, message, calls, stamps, pend) ==
    Out(Failed(d, <<"Unknown error">>), calls, stamps, pend, FALSE)

\* except Exception as e
OnException(d, message, calls, stamps, pend) ==
    Out(Failed(d, <<message>>), calls, stamps, pend, FALSE)

\* the second try block, for a row whose location id is set
TryPush(d, k, synced_on, pend) ==
    IF ~Truthy(d.variant_id)
    THEN RejectRow(d, k, <<"Missing variant_id in Ecommerce Item mapping.">>, <<>>,
                   synced_on, pend)
    ELSE
    LET variant == VariantFind(d.variant_id)
        found == <<Call("Variant.find", k, d.variant_id, 0, 0, 0)>>
    IN  IF variant.kind = "not_found" THEN OnResourceNotFound(d, k, found, synced_on, pend)
        ELSE IF variant.kind = "error"
        THEN OnException(d, "Variant.find raised", found, <<>>, pend)
        ELSE IF variant.inventory_item_id = 0
        THEN RejectRow(d, k, <<"Shopify variant has no inventory_item_id", d.variant_id>>,
                       found, synced_on, pend)
        ELSE
        LET available == Available(d)
            answer == InventoryLevelSet(d.shopify_location_id,
                                        variant.inventory_item_id, available)
            made == Append(found, Call("InventoryLevel.set", k, d.variant_id,
                                       d.shopify_location_id,
                                       variant.inventory_item_id, available))
        IN  IF answer = "not_found" THEN OnResourceNotFound(d, k, made, synced_on, pend)
            ELSE IF answer = "error"
            THEN OnException(d, "InventoryLevel.set raised", made, <<>>, pend)
            ELSE
            LET u == UpdateInventorySyncStatus(d.ecom_item, synced_on, pend)
                stamps == <<Stamp(k, d.ecom_item, synced_on, u.raised)>>
            IN  IF u.raised
                THEN OnException(d, "update_inventory_sync_status raised",
                                 made, stamps, pend)
                ELSE Out([d EXCEPT !.status = "Success"], made, stamps, u.pend, FALSE)

PushRowUnlessSynced(d, k, warehouse_map, synced_on, pend) ==
    LET loc == ResolveLocation(d, warehouse_map)
    IN  IF pend[d.ecom_item] # 0
        THEN Out([d EXCEPT !.status = "Success"], <<>>, <<>>, pend, FALSE)
        ELSE IF loc.raised
        THEN RejectRow(d, k, <<"No numeric Shopify Location for ERP Warehouse", d.warehouse>>,
                       <<>>, synced_on, pend)
        ELSE TryPush([d EXCEPT !.shopify_location_id = loc.id], k, synced_on, pend)

\* the body of `for d in batch`, up to the row's commit
PushRow(d, k, warehouse_map, synced_on, pend) ==
    LET loc == ResolveLocation(d, warehouse_map)
    IN  IF loc.raised
        THEN RejectRow(d, k, <<"No numeric Shopify Location for ERP Warehouse", d.warehouse>>,
                       <<>>, synced_on, pend)
        ELSE TryPush([d EXCEPT !.shopify_location_id = loc.id], k, synced_on, pend)

DbCommitSkipped(comm, pend) == comm

\* frappe.db.commit(): the open transaction becomes the committed state
DbCommit(comm, pend) == pend

\* create_batch(inventory_levels, 50): the batch that row k belongs to
BatchFirst(k) == ((k - 1) \div BatchSize) * BatchSize + 1

BatchLastOneMore(k, n) == Min(BatchFirst(k) + BatchSize, n)

BatchLast(k, n) == Min(BatchFirst(k) + BatchSize - 1, n)

\* ------------------------------------------------------------ Location Resolver
EmptyMap == [w \in {} |-> StrVal("")]


\* the warehouse mapping table of the Shopify Setting
WhMappingTable == ("W1" :> StrVal("5")) @@ ("W2" :> StrVal("abc"))

\* setting.get_erpnext_to_integration_wh_mapping() or {}
GetWhMapping(setting) == IF setting.has_mapping THEN WhMappingTable ELSE EmptyMap

GetNumericLocationIdLenient(setting, default_wh) ==
    IF ~Truthy(default_wh) \/ default_wh \notin DOMAIN WhMappingTable \/ ~setting.has_mapping
    THEN [raised |-> TRUE, id |-> 0,
          message |-> "No Shopify Location mapping for Default Warehouse"]
    ELSE [raised |-> FALSE,
          id |-> IF IntRaises(WhMappingTable[default_wh]) THEN 0
                 ELSE Int_(WhMappingTable[default_wh]),
          message |-> ""]

GetNumericLocationId(setting, default_wh) ==
    LET erp_to_shop == GetWhMapping(setting)
    IN  IF ~Truthy(default_wh) \/ default_wh \notin DOMAIN erp_to_shop
        THEN [raised |-> TRUE, id |-> 0,
              message |-> "No Shopify Location mapping for Default Warehouse"]
        ELSE IF IntRaises(erp_to_shop[default_wh])
        THEN [raised |-> TRUE, id |-> 0,
              message |-> "Shopify Location ID must be numeric"]
        ELSE [raised |-> FALSE, id |-> Int_(erp_to_shop[default_wh]), message |-> ""]

\* ------------------------------------------------------------------------ state
VARIABLES
    pc,         \* where the job is: "idle", "row", "commit", "log", "done",
                \* "raised" (an exception reached the caller), or
                \* "crashed_row", "crashed_commit", "crashed_log" (killed there)
    ran,        \* this invocation reached _run_push_for_default_warehouse
    pushed,     \* this invocation called upload_inventory_data_to_shopify
    setting,    \* the Shopify Setting document: {} until loaded, then {doc}
    snapshot,   \* the ERP inventory rows: {} until read, then {rows}
    rows,       \* inventory_levels of the running push, mutated in place
    wmap,       \* warehouse_map of the running push
    i,          \* index of the row being processed
    synced_on,  \* now() at the start of the running push
    clock,      \* the time: pushes started so far
    logs,       \* the Shopify Log, append-only
    logMark,    \* Len(logs) when this invocation started
    calls,      \* remote calls of this invocation
    stamps,     \* update_inventory_sync_status calls of this invocation
    prev,       \* {} or {the previous push: its rows, map and remote calls}
    committed,  \* ecom item -> committed inventory_synced_on (0: never)
    pending,    \* the same, as seen inside the open transaction
    queries,    \* frappe.get_all lookups of this invocation
    fetches,    \* get_inventory_levels calls of this invocation
    runs        \* entry point invocations so far

vars == <<pc, ran, pushed, setting, snapshot, rows, wmap, i, synced_on, clock, logs,
          logMark, calls, stamps, prev, committed, pending, queries, fetches, runs>>

Settings ==
    [enabled : BOOLEAN, update_erpnext_stock_levels_to_shopify : BOOLEAN,
     warehouse : {""} \cup Warehouses, has_mapping : BOOLEAN]

\* the ecom items the Eligibility Filter lets through
FlaggedItems == {"E-OK", "E-OK-U", "E-NOVAR", "E-NOVAR-U", "E-NOINV", "E-NOINV-U",
                 "E-NF", "E-NF-U", "E-FERR", "E-SNF", "E-SNF-U", "E-SERR"}

\* row lists a direct caller of upload_inventory_data_to_shopify hands over
DirectRows ==
    SeqsUpTo(RowsOf(FlaggedItems, "W1") \cup
             {InvRow(e, w, <<107, 30>>) : e \in {"E-OK", "E-OK-U"}, w \in {"W2", "W3"}},
             MaxRows)

Pristine(rs) ==
    [k \in 1..Len(rs) |->
        [rs[k] EXCEPT !.status = Unset, !.failure_reason = <<>>, !.shopify_location_id = 0]]

IsSet(c) == c.op = "InventoryLevel.set"

SetCalls(cs) == SelectSeq(cs, IsSet)

Init ==
    /\ pc = "idle" /\ ran = FALSE /\ pushed = FALSE
    /\ setting = {} /\ snapshot = {}
    /\ rows = <<>> /\ wmap = EmptyMap /\ i = 1
    /\ synced_on = 0 /\ clock = 0
    /\ logs = <<>> /\ logMark = 0 /\ calls = <<>> /\ stamps = <<>> /\ prev = {}
    /\ committed = [e \in EcomItems |-> 0] /\ pending = [e \in EcomItems |-> 0]
    /\ queries = 0 /\ fetches = 0 /\ runs = 0

\* ----------------------------------------------------------------- entry points
\* No job is running and another invocation is within the bound.
CanStart == pc \in {"idle", "done", "raised"} /\ runs < MaxRuns

\* Bookkeeping of an invocation's start; the push that just ended becomes `prev`.
BeginRun ==
    /\ runs' = runs + 1
    /\ logMark' = Len(logs)
    /\ prev' = IF pushed
               THEN {[input |-> Pristine(rows), wmap |-> wmap, calls |-> SetCalls(calls)]}
               ELSE prev
    /\ UNCHANGED <<committed, pending>>

\* The invocation returns without calling the Batch Pusher.
Return(newLogs, snap, nq, nf, didRun) ==
    /\ pc' = "done" /\ ran' = didRun /\ pushed' = FALSE
    /\ logs' = newLogs /\ snapshot' = snap /\ queries' = nq /\ fetches' = nf
    /\ rows' = <<>> /\ wmap' = EmptyMap /\ i' = 1
    /\ calls' = <<>> /\ stamps' = <<>>
    /\ UNCHANGED <<synced_on, clock>>

\* upload_inventory_data_to_shopify is entered: synced_on = now(), first row next
Upload(inventory_levels, warehouse_map, snap, nq, nf, didRun) ==
    /\ pc' = IF inventory_levels = <<>> THEN "done" ELSE "row"
    /\ ran' = didRun /\ pushed' = TRUE
    /\ snapshot' = snap /\ queries' = nq /\ fetches' = nf
    /\ rows' = inventory_levels /\ wmap' = warehouse_map /\ i' = 1
    /\ synced_on' = clock + 1 /\ clock' = clock + 1
    /\ calls' = <<>> /\ stamps' = <<>>
    /\ UNCHANGED logs

Log(status, message, arg) == Append(logs, LogEntry(status, message, arg, 0, 0, <<>>))

NoRowsUnchecked(inventory_levels) == FALSE

\* `if not inventory_levels`
NoRows(inventory_levels) == inventory_levels = <<>>

\* the rows get_inventory_levels returns: any, and the same on a re-run
Fetch(warehouse) == IF snapshot = {} THEN get_inventory_levels(warehouse) ELSE snapshot

IsEnabled(s) == s.enabled

SkipsPushIgnoringToggle(s) == ~IsEnabled(s)

\* the guard of _run_push_for_default_warehouse
SkipsPush(s) == ~IsEnabled(s) \/ ~s.update_erpnext_stock_levels_to_shopify

RunPushForDefaultWarehouse(s) ==
    IF SkipsPush(s) THEN Return(logs, snapshot, 0, 0, TRUE)
    ELSE IF ~Truthy(s.warehouse)
    THEN Return(Log("Error", "Default Warehouse is not set on Shopify Setting", ""),
                snapshot, 0, 0, TRUE)
    ELSE
    LET loc == GetNumericLocationId(s, s.warehouse)
    IN  IF loc.raised
        THEN Return(Log("Error", loc.message, s.warehouse), snapshot, 0, 0, TRUE)
        ELSE \E inventory_levels \in Fetch(s.warehouse) :
            IF NoRows(inventory_levels)
            THEN Return(Log("Success", "No inventory rows found for Default Warehouse",
                            s.warehouse),
                        {inventory_levels}, 0, 1, TRUE)
            ELSE
            LET f == FilterToFlaggedItems(inventory_levels)
            IN  IF NoRows(f.rows)
                THEN Return(Log("Success", "No flagged items to sync", ""),
                            {inventory_levels}, f.queries, 1, TRUE)
                ELSE Upload(f.rows, (s.warehouse :> IntVal(loc.id)),
                            {inventory_levels}, f.queries, 1, TRUE)

\* frappe.get_doc(SETTING_DOCTYPE): any document, and the same on a re-run
GetSettingDoc == IF setting = {} THEN Settings ELSE setting

\* the scheduled entry point; need_to_run answers either way
UpdateInventoryOnShopify ==
    /\ CanStart /\ (runs = 0 \/ setting # {})
    /\ \E s \in GetSettingDoc, due \in BOOLEAN :
          /\ BeginRun
          /\ setting' = {s}
          /\ IF due THEN RunPushForDefaultWarehouse(s)
             ELSE Return(logs, snapshot, 0, 0, FALSE)

\* the manual entry point
UpdateInventoryOnShopifyNow ==
    /\ CanStart /\ (runs = 0 \/ setting # {})
    /\ \E s \in GetSettingDoc :
          /\ BeginRun
          /\ setting' = {s}
          /\ RunPushForDefaultWarehouse(s)

\* upload_inventory_data_to_shopify called on its own, with the mapping table
UploadInventoryDataToShopify ==
    /\ CanStart /\ setting = {}
    /\ \E inventory_levels \in (IF snapshot = {} THEN DirectRows ELSE snapshot) :
          /\ BeginRun
          /\ setting' = setting
          /\ Upload(inventory_levels, WhMappingTable, {inventory_levels}, 0, 0, FALSE)

\* -------------------------------------------------------- steps of a running push
\* lines 90-132 for row i: everything but the row's frappe.db.commit()
ProcessRow ==
    /\ pc = "row"
    /\ LET r == PushRow(rows[i], i, wmap, synced_on, pending)
       IN  /\ rows' = [rows EXCEPT ![i] = r.row]
           /\ calls' = calls \o r.calls
           /\ stamps' = stamps \o r.stamps
           /\ pending' = IF r.raised THEN committed ELSE r.pend
           /\ pc' = IF r.raised THEN "raised" ELSE "commit"
    /\ UNCHANGED <<ran, pushed, setting, snapshot, wmap, i, synced_on, clock, logs,
                   logMark, prev, committed, queries, fetches, runs>>

CommitAtBatchEnd ==
    /\ pc = "commit"
    /\ committed' = IF i = BatchLast(i, Len(rows)) THEN pending ELSE committed
    /\ i' = i + 1
    /\ pc' = IF i = BatchLast(i, Len(rows)) THEN "log" ELSE "row"
    /\ UNCHANGED <<ran, pushed, setting, snapshot, rows, wmap, synced_on, clock, logs,
                   logMark, calls, stamps, prev, pending, queries, fetches, runs>>

\* frappe.db.commit() of row i, then the loop moves on
Commit ==
    /\ pc = "commit"
    /\ committed' = DbCommit(committed, pending)
    /\ i' = i + 1
    /\ pc' = IF i = BatchLast(i, Len(rows)) THEN "log" ELSE "row"
    /\ UNCHANGED <<ran, pushed, setting, snapshot, rows, wmap, synced_on, clock, logs,
                   logMark, calls, stamps, prev, pending, queries, fetches, runs>>

\* _log_batch_status(batch) for the batch that row i - 1 ended
LogBatch ==
    /\ pc = "log"
    /\ logs' = Append(logs, LogBatchStatus(SubSeq(rows, BatchFirst(i - 1), i - 1)))
    /\ pc' = IF i > Len(rows) THEN "done" ELSE "row"
    /\ UNCHANGED <<ran, pushed, setting, snapshot, rows, wmap, i, synced_on, clock,
                   logMark, calls, stamps, prev, committed, pending, queries, fetches,
                   runs>>

\* The worker is killed while a push is running: the open transaction is lost.
Abort ==
    /\ pc \in {"row", "commit", "log"}
    /\ pc' = IF pc = "row" THEN "crashed_row"
             ELSE IF pc = "commit" THEN "crashed_commit" ELSE "crashed_log"
    /\ pending' = committed
    /\ UNCHANGED <<ran, pushed, setting, snapshot, rows, wmap, i, synced_on, clock, logs,
                   logMark, calls, stamps, prev, committed, queries, fetches, runs>>

Next ==
    \/ UpdateInventoryOnShopify
    \/ UpdateInventoryOnShopifyNow
    \/ UploadInventoryDataToShopify
    \/ ProcessRow
    \/ Commit
    \/ LogBatch
    \/ Abort

Spec == Init /\ [][Next]_vars

\* ------------------------------------------------- the Batch Logger on its own
\* A batch as the Batch Logger may be handed it: rows with any status, or none.
LoggerBatches ==
    LET base == InvRow("E-OK", "W1", <<107, 30>>)
    IN  SeqsUpTo({[base EXCEPT !.status = st] :
                     st \in {"Success", "Failed", "Not Found", Unset}}, MaxBatch)

Quiet ==
    /\ ran = FALSE /\ pushed = FALSE /\ setting = {}
    /\ wmap = EmptyMap /\ i = 1 /\ synced_on = 0 /\ clock = 0
    /\ logs = <<>> /\ logMark = 0 /\ calls = <<>> /\ stamps = <<>> /\ prev = {}
    /\ committed = [e \in EcomItems |-> 0] /\ pending = [e \in EcomItems |-> 0]
    /\ queries = 0 /\ fetches = 0 /\ runs = 0

LoggerInit ==
    /\ pc = "logger" /\ snapshot = {} /\ rows \in LoggerBatches /\ Quiet

\* _log_batch_status(inventory_levels)
LogBatchStatusCall ==
    /\ pc = "logger"
    /\ logs' = Append(logs, LogBatchStatus(rows))
    /\ pc' = "logged"
    /\ UNCHANGED <<ran, pushed, setting, snapshot, rows, wmap, i, synced_on, clock,
                   logMark, calls, stamps, prev, committed, pending, queries, fetches,
                   runs>>

LoggerNext == LogBatchStatusCall

LoggerSpec == LoggerInit /\ [][LoggerNext]_vars

\* -------------------------------------------- the Eligibility Filter on its own
\* Rows as the filter may be handed them: of any ecom item, or without one.
FilterInputs ==
    SeqsUpTo(RowsOf(EcomItems, "W1") \cup {InvRow("", "W1", <<107, 30>>)}, MaxRows)

FilterInit ==
    /\ pc = "filter" /\ rows = <<>> /\ Quiet
    /\ \E inventory_levels \in FilterInputs : snapshot = {inventory_levels}

\* _filter_to_flagged_items(inventory_levels)
FilterToFlaggedItemsCall ==
    /\ pc = "filter"
    /\ \E inventory_levels \in snapshot :
          LET f == FilterToFlaggedItems(inventory_levels)
          IN  rows' = f.rows /\ queries' = f.queries
    /\ pc' = "filtered"
    /\ UNCHANGED <<ran, pushed, setting, snapshot, wmap, i, synced_on, clock, logs,
                   logMark, calls, stamps, prev, committed, pending, fetches, runs>>

FilterNext == FilterToFlaggedItemsCall

FilterSpec == FilterInit /\ [][FilterNext]_vars

\* ------------------------------------------------ the pusher over quantities
\* actual_qty and reserved_qty as get_inventory_levels can report them, in
\* tenths: negative stock, fractions below one, whole and fractional amounts
QtyValues == {-25, -7, 0, 7, 15, 30, 102, 107}

\* one-row lists whose row reaches InventoryLevel.set
QtyRows ==
    {<<InvRow(e, "W1", <<a, r>>)>> : e \in {"E-OK", "E-SERR"},
                                    a \in QtyValues, r \in QtyValues}

\* upload_inventory_data_to_shopify called with one such list
UploadQuantities ==
    /\ CanStart /\ setting = {}
    /\ \E inventory_levels \in (IF snapshot = {} THEN QtyRows ELSE snapshot) :
          /\ BeginRun
          /\ setting' = setting
          /\ Upload(inventory_levels, WhMappingTable, {inventory_levels}, 0, 0, FALSE)

QtyNext == UploadQuantities \/ ProcessRow \/ Commit \/ LogBatch

QtySpec == Init /\ [][QtyNext]_vars

\* ------------------------------------------------ the pusher over long lists
\* row lists of one full batch, of one row more, and of two batches and a row
LongLens == {BatchSize, BatchSize + 1, 2 * BatchSize + 1}

\* rows that end 'Success', 'Not Found' and 'Failed', and one whose
\* processing is left by an exception
LongKinds == {InvRow(e, "W1", <<107, 30>>) : e \in {"E-OK", "E-NF", "E-NOVAR", "E-NF-U"}}

\* lists that repeat three rows; the period does not divide the batch size
LongRows ==
    {[k \in 1..n |-> base[((k - 1) % 3) + 1]] :
        base \in [1..3 -> LongKinds], n \in LongLens}

\* upload_inventory_data_to_shopify called with one such list
UploadBatches ==
    /\ CanStart /\ setting = {}
    /\ \E inventory_levels \in (IF snapshot = {} THEN LongRows ELSE snapshot) :
          /\ BeginRun
          /\ setting' = setting
          /\ Upload(inventory_levels, WhMappingTable, {inventory_levels}, 0, 0, FALSE)

BatchNext == UploadBatches \/ ProcessRow \/ Commit \/ LogBatch \/ Abort

BatchSpec == Init /\ [][BatchNext]_vars

\* ---------------------------------------------------------------- properties
\* the log entries this invocation wrote
RunLogs == SubSeq(logs, logMark + 1, Len(logs))

\* the run ended while row i was in flight: killed, or left by an exception
Aborted == pc \in {"crashed_row", "crashed_commit", "raised"}

\* row k's processing (lines 90-132) has run in this push
Attempted(k) ==
    /\ pushed /\ k \in 1..Len(rows)
    /\ k < i \/ (k = i /\ pc \in {"commit", "raised", "crashed_commit"})

RowStatuses == {"Success", "Failed", "Not Found"}

CallsOfRow(k) == {n \in 1..Len(calls) : calls[n].row = k}

StampsOfRow(k) == {n \in 1..Len(stamps) : stamps[n].row = k}

\* nothing of a push happened in this invocation
NoPush == ~pushed /\ rows = <<>> /\ calls = <<>> /\ stamps = <<>> /\ pending = committed

\* C1: no exception raised while a row is processed leaves that row's
\* processing: the job is never left by an exception, and every row whose
\* processing ran has an outcome status.
C1_RowFailuresIsolated ==
    /\ pc # "raised"
    /\ \A k \in 1..Len(rows) : Attempted(k) => rows[k].status \in RowStatuses

\* C2: every row whose Variant.find raised not-found ends with status
\* 'Not Found' and had its sync timestamp updated with the run's timestamp.
C2_NotFoundRowStamped ==
    \A k \in 1..Len(rows) :
        (/\ Attempted(k)
         /\ \E n \in CallsOfRow(k) : calls[n].op = "Variant.find"
         /\ VariantFind(rows[k].variant_id).kind = "not_found")
        => /\ rows[k].status = "Not Found"
           /\ \E n \in StampsOfRow(k) :
                 /\ stamps[n].ecom_item = rows[k].ecom_item
                 /\ stamps[n].time = synced_on /\ ~stamps[n].raised

\* C3 as stated: when the run is aborted with row i in flight, every row of
\* that batch completed before i has its outcome in committed local state:
\* its sync timestamp is committed, or a batch log entry covers it.
C3_CompletedRowsRecorded ==
    Aborted =>
        \A k \in 1..(i - 1) :
            k >= BatchFirst(i) =>
                \/ committed[rows[k].ecom_item] = synced_on
                \/ Len(RunLogs) * BatchSize >= k

\* C3 as amended: when the run is aborted with row i in flight, every sync
\* timestamp update made by a row completed before i is committed, so every
\* completed row that ended 'Success' or 'Not Found' has its timestamp
\* committed; only row i's own update can be lost.
C3_CompletedStampsCommitted ==
    Aborted =>
        /\ \A n \in 1..Len(stamps) :
              (stamps[n].row < i /\ ~stamps[n].raised)
              => committed[stamps[n].ecom_item] = stamps[n].time
        /\ \A k \in 1..(i - 1) :
              rows[k].status \in {"Success", "Not Found"}
              => committed[rows[k].ecom_item] = synced_on

\* a crash before row 2's commit: row 1's timestamp is committed, row 2's is lost
C3_Witness ==
    /\ pc = "crashed_commit" /\ i = 2
    /\ rows[1].status = "Success" /\ rows[2].status = "Not Found"
    /\ committed[rows[1].ecom_item] = synced_on
    /\ committed[rows[2].ecom_item] = 0

\* C4: with the integration disabled or the stock sync toggle off, a run
\* makes no remote call, mutates no row, fetches no rows and writes no log.
C4_DisabledRunDoesNothing ==
    \A s \in setting :
        (ran /\ (~s.enabled \/ ~s.update_erpnext_stock_levels_to_shopify))
        => /\ pc = "done" /\ NoPush
           /\ fetches = 0 /\ queries = 0 /\ snapshot = {}
           /\ RunLogs = <<>> /\ logs = <<>>
           /\ committed = [e \in EcomItems |-> 0]

\* an enabled integration with the toggle off was run, twice
C4_Witness ==
    /\ ran /\ runs = 2 /\ pc = "done"
    /\ \E s \in setting : s.enabled /\ ~s.update_erpnext_stock_levels_to_shopify
                          /\ s.warehouse = "W1" /\ s.has_mapping

\* what the claim calls an unresolvable default warehouse
Unresolvable(s) ==
    LET table == GetWhMapping(s)
    IN  \/ s.warehouse = ""
        \/ s.warehouse \notin DOMAIN table
        \/ table[s.warehouse].s \notin DOMAIN NumericText

\* C5: an enabled run whose default warehouse is unset, unmapped or mapped to
\* a non-integer writes exactly one 'Error' entry and does nothing else, and
\* no exception reaches the caller.
C5_ConfigErrorLoggedOnce ==
    \A s \in setting :
        (ran /\ s.enabled /\ s.update_erpnext_stock_levels_to_shopify /\ Unresolvable(s))
        => /\ pc = "done" /\ NoPush
           /\ fetches = 0 /\ queries = 0 /\ snapshot = {}
           /\ Len(RunLogs) = 1 /\ RunLogs[1].status = "Error"
           /\ committed = [e \in EcomItems |-> 0]

\* the default warehouse is mapped to the text "abc"
C5_Witness ==
    /\ ran /\ pc = "done" /\ Len(RunLogs) = 1 /\ RunLogs[1].status = "Error"
    /\ \E s \in setting : s.warehouse = "W2" /\ s.has_mapping

\* C6: an enabled, mapped run that gets no rows, or whose rows the filter all
\* drops, writes exactly one 'Success' entry and never enters the Batch Pusher.
C6_NothingToPushLoggedOnce ==
    \A inventory_levels \in snapshot :
        (ran /\ fetches = 1 /\ (\A k \in 1..Len(inventory_levels) :
                                   inventory_levels[k].ecom_item \notin FlaggedItems))
        => /\ pc = "done" /\ NoPush
           /\ Len(RunLogs) = 1 /\ RunLogs[1].status = "Success"
           /\ RunLogs[1].message =
                 IF inventory_levels = <<>>
                 THEN "No inventory rows found for Default Warehouse"
                 ELSE "No flagged items to sync"
           /\ queries = IF inventory_levels = <<>> THEN 0 ELSE 2

\* rows were fetched and none of them is flagged
C6_Witness ==
    /\ ran /\ fetches = 1 /\ pc = "done"
    /\ \E inventory_levels \in snapshot : Len(inventory_levels) = 2
    /\ Len(RunLogs) = 1 /\ RunLogs[1].message = "No flagged items to sync"

\* C7: for a non-empty batch the Batch Logger writes exactly one entry, of
\* status 'Success' iff every row is 'Success', 'Failed' iff no row is, and
\* 'Partial Success' otherwise; 'Not Found' rows and rows without a status
\* count as not successful.
C7_BatchStatusClassified ==
    (pc = "logged" /\ rows # <<>>) =>
        /\ Len(logs) = 1
        /\ LET n == Cardinality({k \in 1..Len(rows) : rows[k].status = "Success"})
           IN  /\ logs[1].status \in {"Success", "Partial Success", "Failed"}
               /\ logs[1].status = "Success" <=> n = Len(rows)
               /\ logs[1].status = "Failed" <=> n = 0
               /\ logs[1].status = "Partial Success" <=> (0 < n /\ n < Len(rows))
               /\ logs[1].succ = n /\ logs[1].total = Len(rows)
               /\ Len(logs[1].table) = Len(rows)

\* statuses [Success, Success, Failed, Success]: 'Partial Success', 3 of 4
C7_Witness ==
    /\ pc = "logged" /\ Len(rows) = 4
    /\ [k \in 1..4 |-> rows[k].status] = <<"Success", "Success", "Failed", "Success">>
    /\ logs[1].status = "Partial Success" /\ logs[1].succ = 3 /\ logs[1].total = 4

\* what the claim calls a row whose location cannot be resolved
LocationUnresolvable(d) ==
    \/ d.warehouse \notin DOMAIN wmap
    \/ (wmap[d.warehouse].py = "str" /\ wmap[d.warehouse].s \notin DOMAIN NumericText)

\* C8: a row whose warehouse is not in the location map, or maps to a
\* non-integer, ends 'Failed' with a reason naming its warehouse, causes no
\* remote call, has a timestamp update attempted, and is never the row at
\* which an exception leaves the job, whether or not that update raised.
C8_UnmappedRowFailsAndContinues ==
    \A k \in 1..Len(rows) :
        (Attempted(k) /\ LocationUnresolvable(rows[k]))
        => /\ rows[k].status = "Failed"
           /\ rows[k].failure_reason =
                 <<"No numeric Shopify Location for ERP Warehouse", rows[k].warehouse>>
           /\ CallsOfRow(k) = {}
           /\ \E n \in StampsOfRow(k) :
                 stamps[n].ecom_item = rows[k].ecom_item /\ stamps[n].time = synced_on
           /\ ~(pc = "raised" /\ i = k)

\* row 1 is of an unmapped warehouse and its timestamp update raised; row 2
\* was pushed all the same
C8_Witness ==
    /\ pushed /\ pc = "done" /\ Len(rows) = 2
    /\ rows[1].warehouse = "W3" /\ rows[1].status = "Failed"
    /\ \E n \in StampsOfRow(1) : stamps[n].raised
    /\ rows[2].status = "Success"

\* what the claim calls an eligible row: its ecom item resolves, within this
\* integration, to an item code that is sync-enabled and not disabled
Eligible(d) ==
    /\ d.ecom_item \in DOMAIN EcommerceItem
    /\ EcommerceItem[d.ecom_item].integration = MODULE_NAME
    /\ LET code == EcommerceItem[d.ecom_item].erpnext_item_code
       IN  /\ code \in DOMAIN Item
           /\ Item[code].custom_sync_to_shopify = 1
           /\ Item[code].disabled = 0

\* C9: the Eligibility Filter returns exactly the eligible rows of its input,
\* unchanged and in the input's order, and makes no lookup for an empty input.
C9_FilterKeepsEligibleRows ==
    pc = "filtered" =>
        \A inventory_levels \in snapshot :
            /\ rows = SelectSeq(inventory_levels, Eligible)
            /\ inventory_levels = <<>> => queries = 0

\* a disabled item's row is dropped and the flagged row after it is kept
C9_Witness ==
    /\ pc = "filtered" /\ Len(rows) = 1
    /\ \E inventory_levels \in snapshot :
          /\ Len(inventory_levels) = 2
          /\ inventory_levels[1].ecom_item = "E-DISABLED"
          /\ rows[1] = inventory_levels[2]

\* C10: a push over the same rows and map as the previous push makes the same
\* InventoryLevel.set calls, with the same location id, inventory-item id and
\* available quantity, whatever sync timestamps the previous push wrote.
C10_RerunRepeatsSetCalls ==
    (pushed /\ pc \in {"done", "raised"}) =>
        \A p \in prev :
            (p.input = Pristine(rows) /\ p.wmap = wmap) => p.calls = SetCalls(calls)

\* the second push over two rows that the first push stamped
C10_Witness ==
    /\ pushed /\ pc = "done" /\ runs = 2 /\ synced_on = 2
    /\ \E p \in prev :
          /\ p.input = Pristine(rows) /\ p.wmap = wmap
          /\ Len(p.calls) = 2 /\ p.calls = SetCalls(calls)
    /\ \A k \in 1..Len(rows) : committed[rows[k].ecom_item] = 2

\* the integer part of a quantity in tenths, by its defining property: the
\* integer t nearest to zero side of q with less than one unit between them
Trunc(q) ==
    CHOOSE t \in -20..20 :
        \/ q >= 0 /\ 10 * t <= q /\ q < 10 * t + 10
        \/ q < 0 /\ 10 * t >= q /\ q > 10 * t - 10

\* C11: the available quantity of every InventoryLevel.set call is the integer
\* trunc(actual_qty) - trunc(reserved_qty) of its row, each quantity truncated
\* toward zero on its own before the subtraction.
C11_AvailableIsTruncatedDifference ==
    \A n \in 1..Len(calls) :
        IsSet(calls[n]) =>
            /\ calls[n].available \in Int
            /\ calls[n].available =
                  Trunc(rows[calls[n].row].actual_qty) - Trunc(rows[calls[n].row].reserved_qty)

\* actual 10.2 and reserved 1.5 were pushed as 9, where truncating the
\* difference 8.7 would give 8
C11_Witness ==
    /\ pc = "done" /\ Len(calls) = 2 /\ IsSet(calls[2])
    /\ rows[1].actual_qty = 102 /\ rows[1].reserved_qty = 15
    /\ rows[1].status = "Success" /\ calls[2].available = 9

\* C12: whatever a row's outcome (Success, Not Found or Failed), the local
\* transaction is committed when the row's processing has ended: a row with
\* an outcome is followed by its commit, and when the next row is about to
\* start, when the batch log is about to be written and when the push is over
\* no write of an earlier row is outstanding.
C12_RowCommittedBeforeNext ==
    pushed =>
        /\ pc = "commit" => rows[i].status \in RowStatuses
        /\ pc \in {"row", "log", "done"} => pending = committed
        /\ \A k \in 1..Len(rows) :
              k < i => /\ rows[k].status \in RowStatuses
                       /\ \A n \in StampsOfRow(k) :
                             ~stamps[n].raised
                             => committed[stamps[n].ecom_item] = stamps[n].time

\* two rows with different outcomes, both stamped and committed, before the
\* batch log is written
C12_Witness ==
    /\ pushed /\ pc = "log" /\ i = 3 /\ RunLogs = <<>>
    /\ rows[1].status = "Not Found" /\ rows[2].status = "Failed"
    /\ rows[1].ecom_item # rows[2].ecom_item
    /\ committed[rows[1].ecom_item] = synced_on
    /\ committed[rows[2].ecom_item] = synced_on
    /\ pending = committed

\* the message of the exception other than not-found that row d hits after
\* passing the location, variant-id and inventory-item-id checks ("" when it
\* hits none): raised by Variant.find, by InventoryLevel.set, or by the
\* timestamp update after a successful InventoryLevel.set
ErrorHit(d) ==
    IF LocationUnresolvable(d) \/ ~Truthy(d.variant_id) THEN ""
    ELSE LET variant == VariantFind(d.variant_id)
             answer == InventoryLevelSet(d.shopify_location_id, variant.inventory_item_id,
                                         Trunc(d.actual_qty) - Trunc(d.reserved_qty))
         IN  IF variant.kind = "error" THEN "Variant.find raised"
             ELSE IF variant.kind = "not_found" \/ variant.inventory_item_id = 0 THEN ""
             ELSE IF answer = "error" THEN "InventoryLevel.set raised"
             ELSE IF answer = "ok" /\ SyncStatusRaises(d.ecom_item)
             THEN "update_inventory_sync_status raised"
             ELSE ""

\* row d fails the location, the variant-id or the inventory-item-id check
FailsMappingCheck(d) ==
    \/ LocationUnresolvable(d)
    \/ ~Truthy(d.variant_id)
    \/ (VariantFind(d.variant_id).kind = "ok"
        /\ VariantFind(d.variant_id).inventory_item_id = 0)

\* row k made a timestamp update that took effect
Stamped(k) ==
    \E n \in StampsOfRow(k) :
        /\ stamps[n].ecom_item = rows[k].ecom_item
        /\ stamps[n].time = synced_on /\ ~stamps[n].raised

\* a row that hit an exception other than not-found ends 'Failed' with the
\* exception's message and its timestamp is not updated
ErrorRowFailsUnstamped(k) ==
    ErrorHit(rows[k]) # ""
    => /\ rows[k].status = "Failed"
       /\ rows[k].failure_reason = <<ErrorHit(rows[k])>>
       /\ ~Stamped(k)
       /\ pending[rows[k].ecom_item] # synced_on
       /\ committed[rows[k].ecom_item] # synced_on

\* C13 as stated: a row that passes the checks and hits an exception other
\* than not-found ends 'Failed' with the exception's message and without a
\* timestamp update, whereas every row failing a mapping check and every row
\* ending 'Not Found' has its timestamp updated.
C13_RejectedRowsStamped ==
    \A k \in 1..Len(rows) :
        Attempted(k)
        => /\ ErrorRowFailsUnstamped(k)
           /\ (FailsMappingCheck(rows[k]) \/ rows[k].status = "Not Found") => Stamped(k)

\* C13 as amended: a row that passes the checks and hits an exception other
\* than not-found ends 'Failed' with the exception's message and without a
\* timestamp update, whereas for every row failing a mapping check the
\* timestamp update is attempted once, with the run's timestamp, and the row
\* ends 'Failed' whether or not that update took effect, and every row ending
\* 'Not Found' has its timestamp updated.
C13_ErrorRowsFailUnstamped ==
    \A k \in 1..Len(rows) :
        Attempted(k)
        => /\ ErrorRowFailsUnstamped(k)
           /\ FailsMappingCheck(rows[k])
              => /\ rows[k].status = "Failed"
                 /\ Truthy(rows[k].ecom_item)
                    => /\ Cardinality(StampsOfRow(k)) = 1
                       /\ \A n \in StampsOfRow(k) :
                             /\ stamps[n].ecom_item = rows[k].ecom_item
                             /\ stamps[n].time = synced_on
                             /\ (~stamps[n].raised /\ pc = "commit")
                                => pending[rows[k].ecom_item] = synced_on
                             /\ (~stamps[n].raised /\ k < i)
                                => committed[rows[k].ecom_item] = synced_on
           /\ rows[k].status = "Not Found" => Stamped(k)

\* row 1 was set remotely and failed on the timestamp update that followed;
\* row 2 has no variant id, and its timestamp update raised and was swallowed
C13_Witness ==
    /\ pushed /\ pc = "log" /\ Len(rows) = 2
    /\ ErrorHit(rows[1]) = "update_inventory_sync_status raised"
    /\ rows[1].status = "Failed" /\ ~Stamped(1)
    /\ rows[2].variant_id = "" /\ rows[2].status = "Failed"
    /\ \E n \in StampsOfRow(2) : stamps[n].raised

\* InventoryLevel.set was called for row k and returned without error
RemoteLevelSet(k) ==
    \E n \in CallsOfRow(k) :
        /\ IsSet(calls[n])
        /\ InventoryLevelSet(calls[n].location_id, calls[n].inventory_item_id,
                             calls[n].available) = "ok"

\* C15: once a row has been processed, its status is 'Success' if and only if
\* InventoryLevel.set was called for it and returned without error: no row
\* whose remote level was set is reported 'Failed' or 'Not Found', also when
\* the timestamp update after the remote call fails.
C15_SuccessIffRemoteSet ==
    \A k \in 1..Len(rows) :
        Attempted(k) => (rows[k].status = "Success" <=> RemoteLevelSet(k))

SetsOfRow(k) == {n \in CallsOfRow(k) : IsSet(calls[n])}

FindsOfRow(k) == {n \in CallsOfRow(k) : calls[n].op = "Variant.find"}

\* the integer the location map gives for row d's warehouse
LocationOf(d) ==
    IF wmap[d.warehouse].py = "int" THEN wmap[d.warehouse].n
    ELSE NumericText[wmap[d.warehouse].s]

\* C16: InventoryLevel.set is called at most once per row, and only for a row
\* whose location id resolved to an integer, whose variant id is present,
\* whose Variant.find succeeded before and whose variant has an
\* inventory-item id; a row rejected by a mapping check causes no
\* InventoryLevel.set call, a row without variant id no Variant.find call,
\* and a row without location no remote call at all.
C16_SetOnlyForResolvedRows ==
    \A k \in 1..Len(rows) :
        /\ Cardinality(SetsOfRow(k)) <= 1
        /\ Cardinality(FindsOfRow(k)) <= 1
        /\ \A n \in SetsOfRow(k) :
              /\ Attempted(k)
              /\ ~LocationUnresolvable(rows[k])
              /\ calls[n].location_id = LocationOf(rows[k])
              /\ Truthy(rows[k].variant_id)
              /\ \E m \in FindsOfRow(k) : m < n /\ calls[m].variant_id = rows[k].variant_id
              /\ VariantFind(rows[k].variant_id).kind = "ok"
              /\ VariantFind(rows[k].variant_id).inventory_item_id # 0
              /\ calls[n].inventory_item_id = VariantFind(rows[k].variant_id).inventory_item_id
        /\ FailsMappingCheck(rows[k]) => SetsOfRow(k) = {}
        /\ ~Truthy(rows[k].variant_id) => FindsOfRow(k) = {}
        /\ LocationUnresolvable(rows[k]) => CallsOfRow(k) = {}

\* row 1 has no variant id and caused no remote call, row 2 was looked up
\* and set once
C16_Witness ==
    /\ pushed /\ pc = "done" /\ Len(rows) = 2
    /\ rows[1].variant_id = "" /\ rows[1].status = "Failed" /\ CallsOfRow(1) = {}
    /\ rows[2].status = "Success"
    /\ Cardinality(FindsOfRow(2)) = 1 /\ Cardinality(SetsOfRow(2)) = 1

\* the rows of the input that the b-th batch of at most 50 consists of
RowsOfBatch(b) == (50 * (b - 1) + 1)..(IF 50 * b < Len(rows) THEN 50 * b ELSE Len(rows))

\* the b-th batch log entry of the run covers exactly the rows of batch b
CoversBatch(b) ==
    /\ RunLogs[b].total = Cardinality(RowsOfBatch(b))
    /\ Len(RunLogs[b].table) = Cardinality(RowsOfBatch(b))
    /\ \A j \in 1..Len(RunLogs[b].table) :
          /\ RunLogs[b].table[j].variant_id = rows[50 * (b - 1) + j].variant_id
          /\ RunLogs[b].table[j].status = rows[50 * (b - 1) + j].status
          /\ RunLogs[b].table[j].failure_reason = rows[50 * (b - 1) + j].failure_reason

\* C14: the rows are processed once each, in their original order, in
\* consecutive batches of at most 50; the log entry of a batch is written
\* after the batch's last row and before the next batch's first row and
\* covers exactly that batch's rows; a run over n >= 1 rows that is not
\* aborted writes exactly ceil(n / 50) batch log entries.
C14_BatchesInOrder ==
    (pushed /\ rows # <<>>) =>
        /\ \A k \in 1..Len(rows) :
              IF k < i THEN rows[k].status \in RowStatuses
              ELSE IF k = i /\ pc \in {"commit", "crashed_commit"}
                   THEN rows[k].status \in RowStatuses
                   ELSE rows[k].status = Unset
        /\ \A a \in 1..(Len(calls) - 1) : calls[a].row <= calls[a + 1].row
        /\ \A a \in 1..(Len(stamps) - 1) : stamps[a].row < stamps[a + 1].row
        /\ \A a \in 1..Len(calls) : calls[a].row <= i
        /\ pc \in {"row", "commit", "raised", "crashed_row", "crashed_commit"}
              => Len(RunLogs) = (i - 1) \div 50
        /\ pc \in {"log", "crashed_log"}
              => /\ Len(RunLogs) = (i - 2) \div 50
                 /\ (i - 1) % 50 = 0 \/ i - 1 = Len(rows)
        /\ pc = "done"
              => /\ i = Len(rows) + 1
                 /\ Len(RunLogs) = (Len(rows) + 49) \div 50
        /\ \A b \in 1..Len(RunLogs) : CoversBatch(b)

\* 101 rows were pushed in batches of 50, 50 and 1, whose log entries count
\* 17, 17 and 0 successful rows
C14_Witness ==
    /\ pushed /\ pc = "done" /\ Len(rows) = 101 /\ Len(RunLogs) = 3
    /\ RunLogs[1].total = 50 /\ RunLogs[2].total = 50 /\ RunLogs[3].total = 1
    /\ RunLogs[1].succ = 17 /\ RunLogs[2].succ = 17 /\ RunLogs[3].succ = 0
    /\ rows[1].status = "Success" /\ rows[2].status = "Not Found"
    /\ rows[3].status = "Failed"

====
